---------------------------- MODULE Spec2Model ----------------------------
(***************************************************************************)
(* Model of the database administration layer of db_app_sale:              *)
(*   src/app/data_manager.py  (class DatabaseManager, used by main.py)     *)
(*   src/app/database.py      (class Database, the same operations)        *)
(*                                                                         *)
(* The store is a PostgreSQL database.  It is modelled as a set of tables, *)
(* each a set of rows with the columns id (primary key) and ref (a         *)
(* nullable column, 0 standing for NULL), and a set of foreign-key edges   *)
(* child.ref -> parent.id.  Foreign keys are enforced by the store the way *)
(* PostgreSQL enforces a plain FOREIGN KEY (NO ACTION): a statement that   *)
(* would leave a dangling reference raises.                                *)
(***************************************************************************)
EXTENDS Integers, Sequences, FiniteSets, TLC

VARIABLES exists, rows, edges, last, job, coltype, conns, req, run

vars == <<exists, rows, edges, last, job, coltype, conns, req, run>>

(***************************************************************************)
(* Bounds of the model.                                                    *)
(***************************************************************************)
MaxId == 2
MaxRows == 3
MaxList == 2

Tables == {"p", "c"}
Ids == 1..MaxId
\* A row: its primary key and the nullable column ref, 0 standing for NULL.
Row == [id : Ids, ref : 0..MaxId]
IsNull(v) == v = 0
Edge == [child : Tables, parent : Tables]

\* A caller-supplied filter_condition: the text "<col> = <val>".
Pred == [col : {"id", "ref"}, val : Ids]

(***************************************************************************)
(* The store and the SQL statements the code sends to it.                  *)
(***************************************************************************)
Store(ex, rw, ed) == [exists |-> ex, rows |-> rw, edges |-> ed]

CurrentStore == Store(exists, rows, edges)

\* Every reference of a child row names an existing parent row.
FKValid(db) ==
    \A e \in db.edges :
        \A r \in db.rows[e.child] :
            IsNull(r.ref) \/ \E q \in db.rows[e.parent] : q.id = r.ref

\* WHERE {filter_condition}
Matches(r, pred) == r[pred.col] = pred.val

\* SELECT id FROM {table_name} WHERE {filter_condition}
SelectIds(db, t, pred) == {r.id : r \in {x \in db.rows[t] : Matches(x, pred)}}

\* The outcome of one statement run on a cursor: ok = FALSE when it raises.
Raised(db) == [ok |-> FALSE, db |-> db, rowcount |-> 0]

Executed(db, t, keep) ==
    LET d2 == [db EXCEPT !.rows[t] = keep]
    IN  IF FKValid(d2)
        THEN [ok |-> TRUE, db |-> d2, rowcount |-> Cardinality(db.rows[t] \ keep)]
        ELSE Raised(db)

\* DELETE FROM {ref_table} WHERE {ref_column} IN (SELECT id FROM {table_name} WHERE ...)
DeleteRefQuery(db, e, t, pred) ==
    IF e.child \notin db.exists \/ t \notin db.exists
    THEN Raised(db)
    ELSE Executed(db, e.child,
                  {r \in db.rows[e.child] : r.ref \notin SelectIds(db, t, pred)})

\* Mutant of DeleteQuery: the WHERE clause is lost, every row goes.
DeleteQueryWithoutWhere(db, t, pred) ==
    IF t \notin db.exists
    THEN Raised(db)
    ELSE Executed(db, t, {})

\* DELETE FROM {table_name} WHERE {filter_condition}
DeleteQuery(db, t, pred) ==
    IF t \notin db.exists
    THEN Raised(db)
    ELSE Executed(db, t, {r \in db.rows[t] : ~Matches(r, pred)})

\* SELECT COUNT(*) FROM {ref_table} WHERE {ref_column} IN (SELECT id FROM ...)
DependencyCount(db, e, t, pred) ==
    Cardinality({r \in db.rows[e.child] : r.ref \in SelectIds(db, t, pred)})


(***************************************************************************)
(* Connections, cursors and schema discovery.                              *)
(***************************************************************************)
\* What the environment does to one call: the store is reached, the call's
\* own connection cannot be opened, or the catalog query of the discovery
\* (which runs on a connection of its own) fails.
Env == {"ok", "conn_fails", "discovery_fails"}

\* psycopg2.connect(..., cursor_factory=RealDictCursor if use_dict_cursor
\* else DictCursor); None when the connection cannot be opened.
establish_connection(env, use_dict_cursor) ==
    IF env = "conn_fails"
    THEN [open |-> FALSE, cursor_factory |-> "None"]
    ELSE [open |-> TRUE,
          cursor_factory |-> IF use_dict_cursor THEN "RealDictCursor"
                                                ELSE "DictCursor"]

\* row[0] on a fetched row: a DictRow answers to an index, a RealDictRow is a
\* dict keyed by column name only and raises KeyError(0).
IndexZeroRaises(conn) == conn.cursor_factory # "DictCursor"

\* The foreign keys that reference table t (ccu.table_name = t).
RefEdges(db, t) == {e \in db.edges : e.parent = t}

\* The sequences that list a set once each: a catalog query without ORDER BY
\* may return its rows in any order.
Orders(S) ==
    {s \in [1..Cardinality(S) -> S] : \A i, j \in 1..Cardinality(S) :
                                          s[i] = s[j] => i = j}

\* run_database_query: None when the connection or the query fails, else the
\* fetched rows.
run_database_query(env, result) ==
    IF env = "ok" THEN [none |-> FALSE, list |-> result]
                  ELSE [none |-> TRUE, list |-> <<>>]

\* data_manager.get_referenced_tables: the query result as it is, None included.
get_referenced_tables(env, order) == run_database_query(env, order)

\* database.get_referencing_tables: execute_query(...) or [].
get_referencing_tables(env, order) ==
    [none |-> FALSE, list |-> run_database_query(env, order).list]

(***************************************************************************)
(* Cascading delete.                                                       *)
(***************************************************************************)
Ret(kind, affected, deps) == [kind |-> kind, affected |-> affected, deps |-> deps]

Outcome(db, ret) == [db |-> db, ret |-> ret]

\* for ref_info in referenced_tables: cursor.execute(delete_ref_query)
RECURSIVE DeleteReferencing(_, _, _, _)
DeleteReferencing(db, refs, t, pred) ==
    IF refs = <<>>
    THEN [ok |-> TRUE, db |-> db, rowcount |-> 0]
    ELSE LET st == DeleteRefQuery(db, Head(refs), t, pred)
         IN  IF st.ok THEN DeleteReferencing(st.db, Tail(refs), t, pred)
                      ELSE Raised(db)

\* Mutant of CascadeBody: the result is rows_affected >= 0, true also when
\* the delete on the table removed nothing.
CascadeBodyAlwaysTrue(db, t, pred, referenced) ==
    IF referenced.none
    THEN Outcome(db, Ret("None", 0, <<>>))
    ELSE LET children == DeleteReferencing(db, referenced.list, t, pred)
         IN  IF ~children.ok
             THEN Outcome(db, Ret("None", 0, <<>>))
             ELSE LET main == DeleteQuery(children.db, t, pred)
                  IN  IF ~main.ok
                      THEN Outcome(db, Ret("None", 0, <<>>))
                      ELSE Outcome(main.db, Ret("True", main.rowcount, <<>>))

\* The body shared by remove_table_data and delete_data once the connection
\* is open: child deletes, the delete on the table, commit.  An exception
\* leaves the function before commit: the transaction is discarded.
CascadeBody(db, t, pred, referenced) ==
    IF referenced.none
    THEN Outcome(db, Ret("None", 0, <<>>))
    ELSE LET children == DeleteReferencing(db, referenced.list, t, pred)
         IN  IF ~children.ok
             THEN Outcome(db, Ret("None", 0, <<>>))
             ELSE LET main == DeleteQuery(children.db, t, pred)
                  IN  IF ~main.ok
                      THEN Outcome(db, Ret("None", 0, <<>>))
                      ELSE Outcome(main.db,
                                   Ret(IF main.rowcount > 0 THEN "True" ELSE "False",
                                       main.rowcount, <<>>))

remove_table_data(db, t, pred, env, order) ==
    LET db_conn == establish_connection(env, TRUE)
    IN  IF ~db_conn.open
        THEN Outcome(db, Ret("None", 0, <<>>))
        ELSE CascadeBody(db, t, pred, get_referenced_tables(env, order))

\* Mutant of delete_data: the connection commits every statement as it runs,
\* a failure keeps the child deletes that ran before it.
delete_data_autocommit(db, t, pred, env, order) ==
    LET conn == establish_connection(env, TRUE)
        referencing == get_referencing_tables(env, order).list
        res == CascadeBody(db, t, pred, get_referencing_tables(env, order))
        ran == {k \in 0..Len(referencing) :
                   DeleteReferencing(db, SubSeq(referencing, 1, k), t, pred).ok}
        n == CHOOSE k \in ran : \A j \in ran : j <= k
    IN  IF ~conn.open
        THEN Outcome(db, Ret("None", 0, <<>>))
        ELSE IF res.ret.kind # "None"
        THEN res
        ELSE Outcome(DeleteReferencing(db, SubSeq(referencing, 1, n), t,
                                       pred).db,
                     res.ret)

delete_data(db, t, pred, env, order) ==
    LET conn == establish_connection(env, TRUE)
    IN  IF ~conn.open
        THEN Outcome(db, Ret("None", 0, <<>>))
        ELSE CascadeBody(db, t, pred, get_referencing_tables(env, order))

(***************************************************************************)
(* Safe delete.                                                            *)
(***************************************************************************)
\* The dependency loop: for each referencing edge the count query, then
\* cursor.fetchone()[0], then the entry when the count is positive.
RECURSIVE CheckDependencies(_, _, _, _, _)
CheckDependencies(conn, db, refs, t, pred) ==
    IF refs = <<>>
    THEN [raised |-> FALSE, list |-> <<>>]
    ELSE IF Head(refs).child \notin db.exists \/ t \notin db.exists
              \/ IndexZeroRaises(conn)
         THEN [raised |-> TRUE, list |-> <<>>]
         ELSE LET n == DependencyCount(db, Head(refs), t, pred)
                  rest == CheckDependencies(conn, db, Tail(refs), t, pred)
              IN  [raised |-> rest.raised,
                   list |-> IF n > 0
                            THEN <<[table |-> Head(refs).child, count |-> n]>>
                                     \o rest.list
                            ELSE rest.list]

SafeBody(conn, db, t, pred, referenced) ==
    IF referenced.none
    THEN Outcome(db, Ret("error", 0, <<>>))
    ELSE LET deps == CheckDependencies(conn, db, referenced.list, t, pred)
         IN  IF deps.raised
             THEN Outcome(db, Ret("error", 0, <<>>))
             ELSE IF deps.list # <<>>
             THEN Outcome(db, Ret("dependencies_exist", 0, deps.list))
             ELSE LET main == DeleteQuery(db, t, pred)
                  IN  IF ~main.ok
                      THEN Outcome(db, Ret("error", 0, <<>>))
                      ELSE Outcome(main.db, Ret("ok", main.rowcount, <<>>))

\* Mutant of safe_remove_table_data: the safe delete runs the cascading one.
safe_remove_table_data_cascading(db, t, pred, env, order) ==
    LET res == remove_table_data(db, t, pred, env, order)
    IN  Outcome(res.db, Ret(IF res.ret.kind = "None" THEN "None" ELSE "ok",
                            res.ret.affected, <<>>))

safe_remove_table_data(db, t, pred, env, order) ==
    LET db_conn == establish_connection(env, TRUE)
    IN  IF ~db_conn.open
        THEN Outcome(db, Ret("None", 0, <<>>))
        ELSE SafeBody(db_conn, db, t, pred, get_referenced_tables(env, order))

delete_data_safe(db, t, pred, env, order) ==
    LET conn == establish_connection(env, TRUE)
    IN  IF ~conn.open
        THEN Outcome(db, Ret("None", 0, <<>>))
        ELSE SafeBody(conn, db, t, pred, get_referencing_tables(env, order))

(***************************************************************************)
(* Update: modify_table_data (data_manager.py) and update_data             *)
(* (database.py).                                                          *)
(***************************************************************************)
\* The declared type of the columns id and ref of the store's tables.  In a
\* text store the value v stands for the string Spells(v).
ColTypes == {"integer", "text"}

\* [desc[0] for desc in cursor.description] of SELECT * FROM {table_name}
Columns == {"id", "ref"}

\* update_data: the new value of each column, 0 for a column that is absent
\* from the dict or whose value is empty (None, '').
\* Zero stands for a new value that is not empty but that Python takes as
\* false: the number 0, or False.
Zero == -1
Values == [id : 0..MaxId, ref : {Zero} \cup 0..MaxId]
NoValues == [id |-> 0, ref |-> 0]

\* if value: / if update_data[k]
Truthy(v) == v > 0

\* A value bound to a %s placeholder: a value of the store, or a string that
\* is the name of a column.
Value(n) == [name |-> "", val |-> n]
Name(k) == [name |-> k, val |-> 0]

\* The string that a text column holds for the value v.
Spells(v) == IF v = 1 THEN "id" ELSE IF v = 2 THEN "ref" ELSE ""

\* "{k} = %s" on a column holding v: a string that is no number raises
\* (invalid input syntax) against an integer column; NULL equals nothing.
Compares(type, v, param) ==
    IF param.name = ""
    THEN [raises |-> FALSE, eq |-> ~IsNull(v) /\ v = param.val]
    ELSE IF type = "integer"
    THEN [raises |-> TRUE, eq |-> FALSE]
    ELSE [raises |-> FALSE, eq |-> ~IsNull(v) /\ Spells(v) = param.name]

\* dict(zip([desc[0] for desc in cursor.description], existing_row)):
\* iterating a DictRow yields its values, iterating a RealDictRow (a dict)
\* yields its keys, the column names.
RowDict(conn, r) ==
    IF conn.cursor_factory = "DictCursor"
    THEN [k \in Columns |-> Value(r[k])]
    ELSE [k \in Columns |-> Name(k)]

\* The outcome of one statement of an update: error names why it raised.
Failed(db, error) == [ok |-> FALSE, db |-> db, rowcount |-> 0, error |-> error]

\* The store after an UPDATE of table t that turns the rows hit into
\* new[r]: a duplicate primary key or a dangling reference raises.
Updated(db, t, hit, new) ==
    LET rows2 == (db.rows[t] \ hit) \cup {new[r] : r \in hit}
        d2 == [db EXCEPT !.rows[t] = rows2]
    IN  IF Cardinality({r.id : r \in rows2}) # Cardinality(db.rows[t])
        THEN Failed(db, "constraint")
        ELSE IF ~FKValid(d2)
        THEN Failed(db, "constraint")
        ELSE [ok |-> TRUE, db |-> d2, rowcount |-> Cardinality(hit),
              error |-> "none"]

\* UPDATE {foreign_tbl} SET {foreign_col} = %s WHERE {foreign_col} = %s
UpdateRelated(db, type, e, new_value, old_value) ==
    IF e.parent \notin db.exists
    THEN Failed(db, "undefined_table")
    ELSE IF Compares(type, 0, old_value).raises
    THEN Failed(db, "datatype")
    ELSE LET hit == {r \in db.rows[e.parent] :
                        Compares(type, r.id, old_value).eq}
         IN  Updated(db, e.parent, hit,
                     [r \in hit |-> [r EXCEPT !.id = new_value]])

\* UPDATE {table_name} SET {set_clause} WHERE {where_condition}: the columns
\* with a non-empty new value are set, on the rows equal to row_dict in
\* every column.  With no column to set the statement is not SQL.
UpdateQuery(db, type, t, data, row_dict) ==
    IF \A k \in Columns : ~Truthy(data[k])
    THEN Failed(db, "syntax")
    ELSE IF t \notin db.exists
    THEN Failed(db, "undefined_table")
    ELSE IF \E k \in Columns : Compares(type, 0, row_dict[k]).raises
    THEN Failed(db, "datatype")
    ELSE LET hit == {r \in db.rows[t] :
                        \A k \in Columns : Compares(type, r[k], row_dict[k]).eq}
         IN  Updated(db, t, hit,
                     [r \in hit |->
                         [k \in Columns |->
                             IF Truthy(data[k]) THEN data[k] ELSE r[k]]])

\* A statement as the call sent it: what it was, on which table, how it ended.
Stmt(kind, t, st) == [kind |-> kind, table |-> t, out |-> st.error]

\* for fk_info in foreign_keys: fk_info[0] raises on a RealDictRow; else the
\* parent statement when the child column (ref, the column of every foreign
\* key of the model) has a new value that differs from the old one.
RECURSIVE UpdateForeignKeys(_, _, _, _, _, _)
UpdateForeignKeys(conn, db, type, fks, data, row_dict) ==
    IF fks = <<>>
    THEN [ok |-> TRUE, db |-> db, stmts |-> <<>>]
    ELSE IF IndexZeroRaises(conn)
    THEN [ok |-> FALSE, db |-> db,
          stmts |-> <<Stmt("fk_info[0]", Head(fks).child,
                           Failed(db, "KeyError"))>>]
    ELSE IF ~Truthy(data.ref) \/ row_dict.ref = Value(data.ref)
    THEN UpdateForeignKeys(conn, db, type, Tail(fks), data, row_dict)
    ELSE LET st == UpdateRelated(db, type, Head(fks), data.ref, row_dict.ref)
             rest == UpdateForeignKeys(conn, st.db, type, Tail(fks), data,
                                       row_dict)
         IN  IF ~st.ok
             THEN [ok |-> FALSE, db |-> db,
                   stmts |-> <<Stmt("update_related", Head(fks).parent, st)>>]
             ELSE [ok |-> rest.ok, db |-> rest.db,
                   stmts |-> <<Stmt("update_related", Head(fks).parent, st)>>
                                 \o rest.stmts]

\* The foreign keys of table t (tc.table_name = t).
ForeignKeys(db, t) == {e \in db.edges : e.child = t}

\* cursor.execute(fk_query); foreign_keys = cursor.fetchall(): the catalog
\* query on the call's own cursor, which raises when the catalog fails.
FetchForeignKeys(env, order) ==
    IF env = "discovery_fails" THEN [none |-> TRUE, list |-> <<>>]
                               ELSE [none |-> FALSE, list |-> order]

\* for existing_row in existing_rows: the foreign keys, then the row's own
\* UPDATE; results holds cursor.rowcount > 0 of each row.
RECURSIVE UpdateRows(_, _, _, _, _, _, _)
UpdateRows(conn, db, type, t, data, existing_rows, fks) ==
    IF existing_rows = <<>>
    THEN [ok |-> TRUE, db |-> db, results |-> <<>>, stmts |-> <<>>]
    ELSE LET row_dict == RowDict(conn, Head(existing_rows))
             related == UpdateForeignKeys(conn, db, type, fks, data, row_dict)
             own == UpdateQuery(related.db, type, t, data, row_dict)
             rest == UpdateRows(conn, own.db, type, t, data,
                                Tail(existing_rows), fks)
         IN  IF ~related.ok
             THEN [ok |-> FALSE, db |-> db, results |-> <<>>,
                   stmts |-> related.stmts]
             ELSE IF ~own.ok
             THEN [ok |-> FALSE, db |-> db, results |-> <<>>,
                   stmts |-> related.stmts \o <<Stmt("update_own", t, own)>>]
             ELSE [ok |-> rest.ok, db |-> rest.db,
                   results |-> <<own.rowcount > 0>> \o rest.results,
                   stmts |-> related.stmts \o <<Stmt("update_own", t, own)>>
                                 \o rest.stmts]

\* The result of a call: the store it leaves, the value it returns and the
\* statements it sent.
Sent(db, ret, stmts) == [db |-> db, ret |-> ret, stmts |-> stmts]

\* Mutant of UpdateBody: the except branch returns False, the value of a
\* call that found no row, instead of None.
UpdateBodySwallowsError(conn, db, type, t, data, existing_rows, fks) ==
    IF t \notin db.exists
    THEN Sent(db, Ret("None", 0, <<>>), <<>>)
    ELSE IF existing_rows = <<>>
    THEN Sent(db, Ret("False", 0, <<>>), <<>>)
    ELSE IF fks.none
    THEN Sent(db, Ret("None", 0, <<>>), <<>>)
    ELSE LET done == UpdateRows(conn, db, type, t, data, existing_rows,
                                fks.list)
         IN  IF ~done.ok
             THEN Sent(db, Ret("False", 0, <<>>), done.stmts)
             ELSE Sent(done.db,
                       Ret(IF \E i \in 1..Len(done.results) : done.results[i]
                           THEN "True" ELSE "False", 0, <<>>),
                       done.stmts)

\* The body shared by modify_table_data and update_data once the connection
\* is open: the SELECT of the rows, False when there is none, the loop,
\* commit, any(results).  An exception leaves the function before commit.
UpdateBody(conn, db, type, t, data, existing_rows, fks) ==
    IF t \notin db.exists
    THEN Sent(db, Ret("None", 0, <<>>), <<>>)
    ELSE IF existing_rows = <<>>
    THEN Sent(db, Ret("False", 0, <<>>), <<>>)
    ELSE IF fks.none
    THEN Sent(db, Ret("None", 0, <<>>), <<>>)
    ELSE LET done == UpdateRows(conn, db, type, t, data, existing_rows,
                                fks.list)
         IN  IF ~done.ok
             THEN Sent(db, Ret("None", 0, <<>>), done.stmts)
             ELSE Sent(done.db,
                       Ret(IF \E i \in 1..Len(done.results) : done.results[i]
                           THEN "True" ELSE "False", 0, <<>>),
                       done.stmts)

\* Mutant of modify_table_data: a SELECT that finds no row is reported as a
\* failure of the call.
modify_table_data_fails_without_rows(db, type, t, data, existing_rows, env, order) ==
    LET db_conn == establish_connection(env, TRUE)
    IN  IF ~db_conn.open \/ existing_rows = <<>>
        THEN Sent(db, Ret("None", 0, <<>>), <<>>)
        ELSE UpdateBody(db_conn, db, type, t, data, existing_rows,
                        FetchForeignKeys(env, order))

modify_table_data(db, type, t, data, existing_rows, env, order) ==
    LET db_conn == establish_connection(env, TRUE)
    IN  IF ~db_conn.open
        THEN Sent(db, Ret("None", 0, <<>>), <<>>)
        ELSE UpdateBody(db_conn, db, type, t, data, existing_rows,
                        FetchForeignKeys(env, order))

update_data(db, type, t, data, existing_rows, env, order) ==
    LET conn == establish_connection(env, TRUE)
    IN  IF ~conn.open
        THEN Sent(db, Ret("None", 0, <<>>), <<>>)
        ELSE UpdateBody(conn, db, type, t, data, existing_rows,
                        FetchForeignKeys(env, order))

(***************************************************************************)
(* Insert: add_table_row (data_manager.py) and insert_data (database.py).  *)
(***************************************************************************)
\* row_data: the value of each column, 0 for a column the dict does not name
\* and Zero for an id given as the integer 0.
InsertValues == [id : {Zero} \cup 0..MaxId, ref : 0..MaxId]

\* The id of the new row: the value given for it, or else the next value of
\* the column's sequence.
InsertedId(row_data, nextval) ==
    IF row_data.id # 0 THEN row_data.id ELSE nextval

\* INSERT INTO {table_name} ({columns}) VALUES ({value_placeholders})
\* RETURNING id; with no column the statement is not SQL.
InsertQuery(db, t, row_data, nextval) ==
    LET new == [id |-> InsertedId(row_data, nextval), ref |-> row_data.ref]
        d2 == [db EXCEPT !.rows[t] = @ \cup {new}]
    IN  IF row_data = NoValues
        THEN Failed(db, "syntax")
        ELSE IF t \notin db.exists
        THEN Failed(db, "undefined_table")
        ELSE IF \E r \in db.rows[t] : r.id = new.id
        THEN Failed(db, "constraint")
        ELSE IF ~FKValid(d2)
        THEN Failed(db, "constraint")
        ELSE [ok |-> TRUE, db |-> d2, rowcount |-> 1, error |-> "none"]

\* add_table_row: query_result[0]['id'] of the committed insert (the second
\* component of the result), None when run_database_query returns None.
add_table_row(db, t, row_data, nextval, envok) ==
    LET st == InsertQuery(db, t, row_data, nextval)
    IN  IF ~envok \/ ~st.ok
        THEN Outcome(db, Ret("None", 0, <<>>))
        ELSE Outcome(st.db, Ret("id", InsertedId(row_data, nextval), <<>>))

\* insert_data: the same statement and result.
insert_data(db, t, row_data, nextval, envok) ==
    LET st == InsertQuery(db, t, row_data, nextval)
    IN  IF ~envok \/ ~st.ok
        THEN Outcome(db, Ret("None", 0, <<>>))
        ELSE Outcome(st.db, Ret("id", InsertedId(row_data, nextval), <<>>))

(***************************************************************************)
(* The delete request: api_delete_data (main.py).                          *)
(***************************************************************************)
\* filter_condition as the request carries it: an empty text, a text of
\* blanks, or the text of a condition.
Filters ==
    {[text |-> x, pred |-> [col |-> "id", val |-> 1]] : x \in {"", " ", "  "}}
        \cup {[text |-> "cond", pred |-> q] : q \in Pred}

\* str.strip() on the texts of the model.
Strip(text) == IF text \in {" ", "  "} THEN "" ELSE text

\* Mutant of IsBlank: the text is not stripped before the test.
IsBlankOnlyWhenEmpty(filter) == filter.text = ""

\* not filter_condition or filter_condition.strip() == ""
IsBlank(filter) == filter.text = "" \/ Strip(filter.text) = ""

\* The request as recorded with a call, and the answer of its handler.
NoRequest == [filter |-> "none", cascade_mode |-> FALSE, response |-> "none"]

\* api_insert_data: if inserted_id: success, else failure.
InsertResponse(ret) ==
    IF ret.kind = "id" /\ Truthy(ret.affected) THEN "success" ELSE "failure"

\* api_delete_data: the answer to the result of the delete it called.
DeleteResponse(cascade_mode, ret) ==
    IF cascade_mode
    THEN IF ret.kind = "True" THEN "success" ELSE "failure"
    ELSE IF ret.kind = "ok" THEN "success" ELSE "failure"

(***************************************************************************)
(* The loops of the cascading delete and of the update, one statement at a *)
(* time: run is the call in progress, run.db the store as its transaction *)
(* sees it, run.fetched the edges its discovery returned, run.log the     *)
(* edges it has gone through.                                              *)
(***************************************************************************)
IdleRun ==
    [pc |-> "idle", op |-> "none", impl |-> "none", table |-> "none",
     pred |-> [col |-> "id", val |-> 1], data |-> NoValues, env |-> "ok",
     conn |-> establish_connection("conn_fails", TRUE),
     pre |-> Store({}, [t \in Tables |-> {}], {}),
     db |-> Store({}, [t \in Tables |-> {}], {}),
     fetched |-> <<>>, todo |-> <<>>, existing_rows |-> <<>>,
     results |-> <<>>, log |-> <<>>, ret |-> Ret("None", 0, <<>>)]

\* No loop of a call goes through more edges than this.
LogBound == Cardinality(Edge) * MaxRows

\* Mutant of RemainingEdges: the loop does not leave the edge it is at.
RemainingEdgesNotAdvanced(todo) == todo

\* for ref_info in referenced_tables / for fk_info in foreign_keys: the
\* iteration goes on with the rest of the fetched list.
RemainingEdges(todo) == Tail(todo)

\* The call returns ret; an exception or an early return leaves it before
\* commit.
Returns(r, ret) == [r EXCEPT !.pc = "done", !.ret = ret]

\* The edge at the head of the list has been gone through, for row id (0 in
\* a delete, which handles an edge for all rows at once).
Through(r, id, db) ==
    [r EXCEPT !.db = db, !.log = Append(@, [edge |-> Head(r.todo), row |-> id]),
              !.todo = RemainingEdges(@)]

(***************************************************************************)
(* The calls as actions.  last records the call: its arguments, the store  *)
(* it started from and what it returned.  A behaviour is one call from an  *)
(* initial store; the initial stores are closed under the calls, so a      *)
(* sequence of calls meets no store that a single call does not meet.      *)
(***************************************************************************)
Impls == {"data_manager", "database"}

NoCall ==
    [op |-> "none", impl |-> "none", table |-> "none",
     pred |-> [col |-> "id", val |-> 1], data |-> NoValues, env |-> "ok",
     order |-> <<>>,
     pre |-> Store({}, [t \in Tables |-> {}], {}), ret |-> Ret("None", 0, <<>>),
     stmts |-> <<>>,
     prev |-> [op |-> "none", table |-> "none", env |-> "ok", kind |-> "None"],
     request |-> NoRequest]

\* db_conn.close() is called on the paths that return a result of the
\* statements; the except branches and the paths that raise return with the
\* connection the call opened still open.
Unclosed(env, ret) ==
    establish_connection(env, TRUE).open /\ ret.kind \in {"None", "error"}

\* A call and what it leaves: the store, the record of the call (prev is the
\* call before it, request the request that made it), and the connections
\* open at the store.  A connection that the call did not close
\* stays open unless the interpreter reclaims the object on return.
RecordRequest(op, impl, t, pred, data, env, order, res, stmts, unclosed, request) ==
    /\ exists' = res.db.exists
    /\ rows' = res.db.rows
    /\ edges' = res.db.edges
    /\ last' = [op |-> op, impl |-> impl, table |-> t, pred |-> pred,
                data |-> data, env |-> env, order |-> order,
                pre |-> CurrentStore, ret |-> res.ret, stmts |-> stmts,
                prev |-> [op |-> last.op, table |-> last.table,
                          env |-> last.env, kind |-> last.ret.kind],
                request |-> request]
    /\ \E reclaimed \in BOOLEAN :
          conns' = IF unclosed /\ ~reclaimed THEN conns + 1 ELSE conns
    /\ UNCHANGED <<job, coltype, req, run>>

RecordCall(op, impl, t, pred, data, env, order, res, stmts, unclosed) ==
    RecordRequest(op, impl, t, pred, data, env, order, res, stmts, unclosed,
                  NoRequest)

Record(op, impl, t, pred, env, order, res) ==
    RecordCall(op, impl, t, pred, NoValues, env, order, res, <<>>,
               Unclosed(env, res.ret))

DeleteCascade ==
    /\ last.op = "none"
    /\ \E impl \in Impls, t \in Tables, pred \in Pred, env \in Env :
        \E order \in Orders(RefEdges(CurrentStore, t)) :
            Record("DeleteCascade", impl, t, pred, env, order,
                   IF impl = "data_manager"
                   THEN remove_table_data(CurrentStore, t, pred, env, order)
                   ELSE delete_data(CurrentStore, t, pred, env, order))

DeleteSafe ==
    /\ last.op = "none"
    /\ \E impl \in Impls, t \in Tables, pred \in Pred, env \in Env :
        \E order \in Orders(RefEdges(CurrentStore, t)) :
            Record("DeleteSafe", impl, t, pred, env, order,
                   IF impl = "data_manager"
                   THEN safe_remove_table_data(CurrentStore, t, pred, env, order)
                   ELSE delete_data_safe(CurrentStore, t, pred, env, order))

\* Update(table, newValues, predicate); existing_rows is the order in which
\* the SELECT returned the matched rows.
Update ==
    /\ last.op = "none"
    /\ \E impl \in Impls, t \in Tables, pred \in Pred, data \in Values,
          env \in Env :
        \E order \in Orders(ForeignKeys(CurrentStore, t)),
           existing_rows \in Orders({r \in rows[t] : Matches(r, pred)}) :
            LET res == IF impl = "data_manager"
                       THEN modify_table_data(CurrentStore, coltype, t, data,
                                              existing_rows, env, order)
                       ELSE update_data(CurrentStore, coltype, t, data,
                                        existing_rows, env, order)
            IN  RecordCall("Update", impl, t, pred, data, env, order, res,
                           res.stmts, Unclosed(env, res.ret))

SetRun(r) ==
    /\ run' = r
    /\ UNCHANGED <<exists, rows, edges, last, job, coltype, conns, req>>

\* db_conn.commit(), then the return.
CommitRun(r, db) ==
    /\ run' = r
    /\ exists' = db.exists
    /\ rows' = db.rows
    /\ edges' = db.edges
    /\ UNCHANGED <<last, job, coltype, conns, req>>

\* remove_table_data / delete_data up to the loop: the connection, then the
\* referencing edges.
CascadeStart ==
    /\ run.pc = "idle"
    /\ \E impl \in Impls, t \in Tables, pred \in Pred, env \in Env :
        \E order \in Orders(RefEdges(CurrentStore, t)) :
            LET conn == establish_connection(env, TRUE)
                referenced == IF impl = "data_manager"
                              THEN get_referenced_tables(env, order)
                              ELSE get_referencing_tables(env, order)
                r == [IdleRun EXCEPT !.op = "DeleteCascade", !.impl = impl,
                                     !.table = t, !.pred = pred, !.env = env,
                                     !.conn = conn, !.pre = CurrentStore,
                                     !.db = CurrentStore]
            IN  IF ~conn.open \/ referenced.none
                THEN SetRun(Returns(r, Ret("None", 0, <<>>)))
                ELSE SetRun([r EXCEPT !.pc = "edges",
                                      !.fetched = referenced.list,
                                      !.todo = referenced.list])

\* One pass of the loop: cursor.execute(delete_ref_query).
CascadeEdge ==
    /\ run.pc = "edges"
    /\ run.todo # <<>>
    /\ Len(run.log) < LogBound
    /\ LET st == DeleteRefQuery(run.db, Head(run.todo), run.table, run.pred)
       IN  IF ~st.ok
           THEN SetRun(Returns(run, Ret("None", 0, <<>>)))
           ELSE SetRun(Through(run, 0, st.db))

\* After the loop: the delete on the table, commit, rows_affected > 0.
CascadeMain ==
    /\ run.pc = "edges"
    /\ run.todo = <<>>
    /\ LET main == DeleteQuery(run.db, run.table, run.pred)
       IN  IF ~main.ok
           THEN SetRun(Returns(run, Ret("None", 0, <<>>)))
           ELSE CommitRun(Returns([run EXCEPT !.db = main.db],
                                  Ret(IF main.rowcount > 0 THEN "True"
                                                           ELSE "False",
                                      main.rowcount, <<>>)),
                          main.db)

\* modify_table_data / update_data up to the loop over the rows: the
\* connection, the SELECT of the rows, False when there is none.  The new
\* values name the column ref, the column of the foreign keys.
UpdateStart ==
    /\ run.pc = "idle"
    /\ \E impl \in Impls, t \in Tables, pred \in Pred,
          data \in {d \in Values : d.id = 0}, env \in Env :
        \E existing_rows \in Orders({x \in rows[t] : Matches(x, pred)}) :
            LET conn == establish_connection(env, TRUE)
                r == [IdleRun EXCEPT !.op = "Update", !.impl = impl,
                                     !.table = t, !.pred = pred,
                                     !.data = data, !.env = env,
                                     !.conn = conn, !.pre = CurrentStore,
                                     !.db = CurrentStore]
            IN  IF ~conn.open \/ t \notin exists
                THEN SetRun(Returns(r, Ret("None", 0, <<>>)))
                ELSE IF existing_rows = <<>>
                THEN SetRun(Returns(r, Ret("False", 0, <<>>)))
                ELSE SetRun([r EXCEPT !.pc = "rows",
                                      !.existing_rows = existing_rows])

\* The next row of the loop: its foreign keys are fetched.
UpdateRow ==
    /\ run.pc = "rows"
    /\ run.existing_rows # <<>>
    /\ \E order \in Orders(ForeignKeys(run.db, run.table)) :
        LET foreign_keys == FetchForeignKeys(run.env, order)
        IN  IF foreign_keys.none
            THEN SetRun(Returns(run, Ret("None", 0, <<>>)))
            ELSE SetRun([run EXCEPT !.pc = "fks",
                                    !.fetched = @ \o foreign_keys.list,
                                    !.todo = foreign_keys.list])

\* One pass of the loop over the foreign keys of the row: fk_info[0], then
\* the parent statement when the child column has a new value.
UpdateEdge ==
    /\ run.pc = "fks"
    /\ run.todo # <<>>
    /\ Len(run.log) < LogBound
    /\ LET existing_row == Head(run.existing_rows)
           row_dict == RowDict(run.conn, existing_row)
           st == UpdateRelated(run.db, coltype, Head(run.todo), run.data.ref,
                               row_dict.ref)
       IN  IF IndexZeroRaises(run.conn)
           THEN SetRun(Returns(run, Ret("None", 0, <<>>)))
           ELSE IF ~Truthy(run.data.ref) \/ row_dict.ref = Value(run.data.ref)
           THEN SetRun(Through(run, existing_row.id, run.db))
           ELSE IF ~st.ok
           THEN SetRun(Returns(run, Ret("None", 0, <<>>)))
           ELSE SetRun(Through(run, existing_row.id, st.db))

\* After the foreign keys of the row: the row's own UPDATE.
UpdateOwn ==
    /\ run.pc = "fks"
    /\ run.todo = <<>>
    /\ LET own == UpdateQuery(run.db, coltype, run.table, run.data,
                              RowDict(run.conn, Head(run.existing_rows)))
       IN  IF ~own.ok
           THEN SetRun(Returns(run, Ret("None", 0, <<>>)))
           ELSE SetRun([run EXCEPT !.db = own.db,
                                   !.results = Append(@, own.rowcount > 0),
                                   !.existing_rows = Tail(@),
                                   !.pc = "rows"])

\* After the last row: commit, any(update_results).
UpdateEnd ==
    /\ run.pc = "rows"
    /\ run.existing_rows = <<>>
    /\ CommitRun(Returns(run,
                         Ret(IF \E i \in 1..Len(run.results) : run.results[i]
                             THEN "True" ELSE "False", 0, <<>>)),
                 run.db)

\* Insert(table, columnValues): nextval is the next value of the sequence of
\* the column id.  api_insert_data calls add_table_row and answers by the
\* identifier; insert_data of database.py has no handler.
Insert ==
    /\ last.op = "none"
    /\ \E impl \in Impls, t \in Tables, row_data \in InsertValues,
          nextval \in Ids, envok \in BOOLEAN :
        LET res == IF impl = "data_manager"
                   THEN add_table_row(CurrentStore, t, row_data, nextval, envok)
                   ELSE insert_data(CurrentStore, t, row_data, nextval, envok)
        IN  RecordRequest("Insert", impl, t, NoCall.pred, row_data,
                          IF envok THEN "ok" ELSE "conn_fails", <<>>, res,
                          <<>>, FALSE,
                          [NoRequest EXCEPT
                              !.response = IF impl = "data_manager"
                                           THEN InsertResponse(res.ret)
                                           ELSE "none"])

\* api_delete_data: a blank filter is answered with a validation error;
\* otherwise the cascading or the safe delete of data_manager.py is called
\* (stmts names the call).  A text that is no condition makes the first
\* statement with the WHERE clause raise.
ApiDeleteData ==
    /\ last.op = "none"
    /\ \E filter \in Filters, cascade_mode \in BOOLEAN, t \in Tables,
          env \in Env :
        \E order \in Orders(RefEdges(CurrentStore, t)) :
            LET res == IF filter.text # "cond"
                       THEN Outcome(CurrentStore,
                                    Ret(IF cascade_mode THEN "None" ELSE "error",
                                        0, <<>>))
                       ELSE IF cascade_mode
                       THEN remove_table_data(CurrentStore, t, filter.pred,
                                              env, order)
                       ELSE safe_remove_table_data(CurrentStore, t,
                                                   filter.pred, env, order)
                called == IF cascade_mode THEN "remove_table_data"
                                          ELSE "safe_remove_table_data"
                request == [filter |-> filter.text,
                            cascade_mode |-> cascade_mode,
                            response |-> IF IsBlank(filter)
                                         THEN "validation_error"
                                         ELSE DeleteResponse(cascade_mode,
                                                             res.ret)]
            IN  IF IsBlank(filter)
                THEN RecordRequest("ApiDelete", "data_manager", t, filter.pred,
                                   NoValues, env, order,
                                   Outcome(CurrentStore, NoCall.ret),
                                   <<>>, FALSE, request)
                ELSE RecordRequest("ApiDelete", "data_manager", t, filter.pred,
                                   NoValues, env, order, res,
                                   <<[kind |-> called, table |-> t,
                                      out |-> res.ret.kind]>>,
                                   Unclosed(env, res.ret), request)

(***************************************************************************)
(* Archiving: archive_database_tables (data_manager.py) and archive_tables *)
(* (database.py).  A job runs step by step; every step that touches the    *)
(* store, the dump utility or the archive directory may fail.              *)
(***************************************************************************)
JobIds == {1, 2}

\* The tableList of a call: any list of table names, repeats included.
Lists == UNION {[1..n -> Tables] : n \in 0..MaxList}

\* One entry of the tableList: the table and its position in the list.
Entry(list, q) == [table |-> list[q], pos |-> q]

\* A file of the archive directory.
File(kind, t) == <<kind, t>>
NoFile == <<>>

NoData == [none |-> TRUE, rows |-> {}]
NoManifest == [writes |-> 0, results |-> <<>>, tables_archived |-> 0,
               total_tables |-> 0]
NoReturn == [status |-> "none", reason |-> "none"]

IdleJob ==
    [pc |-> "idle", impl |-> "none", list |-> <<>>, loop |-> <<>>,
     k |-> 0, i |-> 0, results |-> <<>>, overall_success |-> TRUE,
     backup_file |-> NoFile, table_data |-> NoData, row_count |-> 0,
     files |-> {}, manifest |-> NoManifest, ret |-> NoReturn,
     log |-> <<>>, pre |-> Store({}, [t \in Tables |-> {}], {})]

\* get_table_names / get_tables: [] when the query fails.
get_table_names(db, envok) == IF envok THEN db.exists ELSE {}

\* database.table_exists: False when the query fails.
table_exists(db, t, envok) == envok /\ t \in db.exists

\* create_table_backup: pg_dump -t {table}; success is exit code 0, and
\* pg_dump fails on a table that is not there.
create_table_backup(db, t, envok) ==
    IF envok /\ t \in db.exists
    THEN [success |-> TRUE, backup_file |-> File("backup", t)]
    ELSE [success |-> FALSE, backup_file |-> NoFile]

\* fetch_table_data / get_table_data: the rows, None when the query fails.
fetch_table_data(db, t, envok) ==
    IF envok /\ t \in db.exists
    THEN [none |-> FALSE, rows |-> db.rows[t]]
    ELSE NoData

\* DROP TABLE IF EXISTS {table_name} CASCADE: the table goes, and with it
\* the foreign keys from it and to it; the rows of other tables stay.
DropTableQuery(db, t) ==
    Store(db.exists \ {t},
          [db.rows EXCEPT ![t] = {}],
          {e \in db.edges : e.child # t /\ e.parent # t})

\* Mutant of drop_database_table: DROP TABLE without IF EXISTS, which raises
\* on a name that is no table.
drop_database_table_strict(db, t, envok) ==
    IF envok /\ t \in db.exists
    THEN [db |-> DropTableQuery(db, t), ret |-> TRUE]
    ELSE [db |-> db, ret |-> FALSE]

\* drop_database_table: False when the connection or the statement fails.
drop_database_table(db, t, envok) ==
    IF envok THEN [db |-> DropTableQuery(db, t), ret |-> TRUE]
             ELSE [db |-> db, ret |-> FALSE]

\* database.drop_table: the same statement and result.
drop_table(db, t, envok) ==
    IF envok THEN [db |-> DropTableQuery(db, t), ret |-> TRUE]
             ELSE [db |-> db, ret |-> FALSE]

\* The entry the loop is at.
Current(jb) == jb.loop[jb.i]

Logged(jb, pos, step, out) ==
    [jb EXCEPT !.log = Append(@, [pos |-> pos, step |-> step, out |-> out])]

\* archive_results.append("... for '{table}' ..."): a failure note.
FailureNote(jb, step) ==
    [jb EXCEPT !.results =
        Append(@, [table |-> Current(jb).table, pos |-> Current(jb).pos,
                   status |-> "failure", step |-> step,
                   backup_file |-> NoFile, excel_file |-> NoFile,
                   json_file |-> NoFile, rows_archived |-> 0])]

\* archive_results.append({... 'status': 'success'})
SuccessRecord(jb) ==
    [jb EXCEPT !.results =
        Append(@, [table |-> Current(jb).table, pos |-> Current(jb).pos,
                   status |-> "success", step |-> "none",
                   backup_file |-> jb.backup_file,
                   excel_file |-> File("excel", Current(jb).table),
                   json_file |-> File("json", Current(jb).table),
                   rows_archived |-> jb.row_count])]

\* The step a table's pipeline starts with: the existence check in
\* archive_database_tables, the backup in archive_tables (which checked
\* existence for the whole list beforehand).
FirstStep(jb) == IF jb.impl = "data_manager" THEN "exists" ELSE "backup"

\* continue / end of the loop body: the next table, or the manifest after
\* the last one.
NextTable(jb) ==
    IF jb.i = Len(jb.loop)
    THEN [jb EXCEPT !.i = @ + 1, !.pc = "manifest"]
    ELSE [jb EXCEPT !.i = @ + 1, !.pc = FirstStep(jb)]

\* Mutant of BackupFailed: the note is appended but the continue is missing,
\* the pipeline goes on to the exports and the drop.
BackupFailedWithoutContinue(jb) ==
    [FailureNote(jb, "backup") EXCEPT !.overall_success = FALSE,
                                      !.pc = "fetch"]

\* if not backup_success: append the note, overall_success = False, continue
BackupFailed(jb) ==
    NextTable([FailureNote(jb, "backup") EXCEPT !.overall_success = FALSE])

\* except Exception as table_error: append the note, overall_success = False
TableError(jb, step) ==
    NextTable([FailureNote(jb, step) EXCEPT !.overall_success = FALSE])

SuccessfulTables(results) ==
    SelectSeq(results, LAMBDA r : r.status = "success")

\* Mutant of WriteManifest: 'results' holds the successful records only.
WriteManifestOfSuccesses(jb) ==
    [Logged(jb, 0, "manifest", "ok") EXCEPT
        !.manifest = [writes |-> jb.manifest.writes + 1,
                      results |-> SuccessfulTables(jb.results),
                      tables_archived |-> Len(SuccessfulTables(jb.results)),
                      total_tables |-> Len(jb.loop)],
        !.pc = "return"]

\* json.dump(archive_info, info_file): the manifest archive_info_*.json
WriteManifest(jb) ==
    [Logged(jb, 0, "manifest", "ok") EXCEPT
        !.manifest = [writes |-> jb.manifest.writes + 1,
                      results |-> jb.results,
                      tables_archived |-> Len(SuccessfulTables(jb.results)),
                      total_tables |-> Len(jb.loop)],
        !.pc = "return"]

\* The value returned after the manifest: (True, {... completed}), (True,
\* {... partial}) or (False, "No tables were successfully archived").
OverallStatus(jb) ==
    IF jb.overall_success
    THEN [status |-> "success", reason |-> "completed"]
    ELSE IF SuccessfulTables(jb.results) # <<>>
         THEN [status |-> "partial", reason |-> "partial"]
         ELSE [status |-> "failure", reason |-> "none_archived"]

SetJob(j, jb) ==
    /\ job' = [job EXCEPT ![j] = jb]
    /\ UNCHANGED <<exists, rows, edges, last, coltype, conns, req, run>>

\* The call: an empty list returns at once; archive_database_tables creates
\* the archive directory and enters the loop; archive_tables first checks
\* which tables exist.
ArchStart(j) ==
    /\ job[j].pc = "idle"
    /\ \E impl \in Impls, list \in Lists :
        LET jb == [IdleJob EXCEPT !.impl = impl, !.list = list,
                                  !.pre = CurrentStore]
        IN  IF list = <<>>
            THEN SetJob(j, [jb EXCEPT !.pc = "done",
                               !.ret = [status |-> "failure",
                                        reason |-> "no_tables_selected"]])
            ELSE IF impl = "data_manager"
            THEN SetJob(j, [jb EXCEPT !.pc = "exists", !.i = 1,
                               !.loop = [q \in 1..Len(list) |-> Entry(list, q)]])
            ELSE SetJob(j, [jb EXCEPT !.pc = "filter", !.k = 1])

\* archive_tables: valid_tables = the tables for which table_exists holds;
\* with none the call returns before the archive directory is created.
ArchFilter(j) ==
    /\ job[j].pc = "filter"
    /\ \E envok \in BOOLEAN :
        LET jb == job[j]
            e == Entry(jb.list, jb.k)
            found == table_exists(CurrentStore, e.table, envok)
            j1 == Logged(jb, e.pos, "exists", IF found THEN "ok" ELSE "fail")
            j2 == [j1 EXCEPT !.loop = IF found THEN Append(@, e) ELSE @,
                             !.k = @ + 1]
        IN  IF jb.k < Len(jb.list)
            THEN SetJob(j, j2)
            ELSE IF j2.loop = <<>>
            THEN SetJob(j, [j2 EXCEPT !.pc = "done",
                               !.ret = [status |-> "failure",
                                        reason |-> "no_existing_tables"]])
            ELSE SetJob(j, [j2 EXCEPT !.pc = "backup", !.i = 1])

\* archive_database_tables: if table not in self.get_table_names(): note,
\* continue (overall_success is left as it is).
ArchExists(j) ==
    /\ job[j].pc = "exists"
    /\ \E envok \in BOOLEAN :
        LET jb == job[j]
            found == Current(jb).table \in get_table_names(CurrentStore, envok)
            j1 == Logged(jb, Current(jb).pos, "exists",
                         IF found THEN "ok" ELSE "fail")
        IN  IF found
            THEN SetJob(j, [j1 EXCEPT !.pc = "backup"])
            ELSE SetJob(j, NextTable(FailureNote(j1, "exists")))

ArchBackup(j) ==
    /\ job[j].pc = "backup"
    /\ \E envok \in BOOLEAN :
        LET jb == job[j]
            b == create_table_backup(CurrentStore, Current(jb).table, envok)
            j1 == Logged(jb, Current(jb).pos, "backup",
                         IF b.success THEN "ok" ELSE "fail")
        IN  IF b.success
            THEN SetJob(j, [j1 EXCEPT !.backup_file = b.backup_file,
                               !.files = @ \cup {b.backup_file},
                               !.pc = "fetch"])
            ELSE SetJob(j, BackupFailed(j1))

\* table_data = self.fetch_table_data(table); row_count = len(...) or 0
ArchFetch(j) ==
    /\ job[j].pc = "fetch"
    /\ \E envok \in BOOLEAN :
        LET jb == job[j]
            d == fetch_table_data(CurrentStore, Current(jb).table, envok)
            j1 == Logged(jb, Current(jb).pos, "fetch",
                         IF d.none THEN "fail" ELSE "ok")
        IN  SetJob(j, [j1 EXCEPT !.table_data = d,
                          !.row_count = Cardinality(d.rows),
                          !.pc = "excel"])

\* if table_data: data_frame.to_excel(excel_path); nothing is written for
\* an empty result or None.
ArchExcel(j) ==
    /\ job[j].pc = "excel"
    /\ LET jb == job[j]
           e == Current(jb)
       IN  IF jb.table_data.rows = {}
           THEN SetJob(j, [Logged(jb, e.pos, "excel", "skip")
                              EXCEPT !.pc = "json"])
           ELSE \E written \in BOOLEAN :
                   IF written
                   THEN SetJob(j, [Logged(jb, e.pos, "excel", "ok") EXCEPT
                                      !.files = @ \cup {File("excel", e.table)},
                                      !.pc = "json"])
                   ELSE SetJob(j, TableError(Logged(jb, e.pos, "excel", "fail"),
                                             "excel"))

\* with open(json_path, 'w'): json.dump(json_data, ...)
ArchJson(j) ==
    /\ job[j].pc = "json"
    /\ \E written \in BOOLEAN :
        LET jb == job[j]
            e == Current(jb)
        IN  IF written
            THEN SetJob(j, [Logged(jb, e.pos, "json", "ok") EXCEPT
                               !.files = @ \cup {File("json", e.table)},
                               !.pc = "drop"])
            ELSE SetJob(j, TableError(Logged(jb, e.pos, "json", "fail"), "json"))

\* drop_result = self.drop_database_table(table): the success record, or the
\* note and overall_success = False.
ArchDrop(j) ==
    /\ job[j].pc = "drop"
    /\ \E envok \in BOOLEAN :
        LET jb == job[j]
            e == Current(jb)
            d == IF jb.impl = "data_manager"
                 THEN drop_database_table(CurrentStore, e.table, envok)
                 ELSE drop_table(CurrentStore, e.table, envok)
            j1 == Logged(jb, e.pos, "drop", IF d.ret THEN "ok" ELSE "fail")
        IN  /\ exists' = d.db.exists
            /\ rows' = d.db.rows
            /\ edges' = d.db.edges
            /\ job' = [job EXCEPT ![j] =
                          IF d.ret
                          THEN NextTable(SuccessRecord(j1))
                          ELSE NextTable([FailureNote(j1, "drop") EXCEPT
                                             !.overall_success = FALSE])]
            /\ UNCHANGED <<last, coltype, conns, req, run>>

ArchManifest(j) ==
    /\ job[j].pc = "manifest"
    /\ SetJob(j, WriteManifest(job[j]))

ArchReturn(j) ==
    /\ job[j].pc = "return"
    /\ SetJob(j, [job[j] EXCEPT !.pc = "done", !.ret = OverallStatus(job[j])])

(***************************************************************************)
(* DropTable, ListTables and the generic query executor as calls.          *)
(***************************************************************************)
\* DropTable(table): drop_database_table / drop_table close the connection
\* in a finally clause.  The call may follow another DropTable call.
DropTable ==
    /\ last.op \in {"none", "DropTable"}
    /\ \E impl \in Impls, t \in Tables, envok \in BOOLEAN :
        LET d == IF impl = "data_manager"
                 THEN drop_database_table(CurrentStore, t, envok)
                 ELSE drop_table(CurrentStore, t, envok)
        IN  RecordCall("DropTable", impl, t, NoCall.pred, NoValues,
                       IF envok THEN "ok" ELSE "conn_fails", <<>>,
                       Outcome(d.db, Ret(IF d.ret THEN "True" ELSE "False",
                                         0, <<>>)),
                       <<>>, FALSE)

\* ORDER BY table_name
Alphabetical(S) == SelectSeq(<<"c", "p">>, LAMBDA x : x \in S)

\* ListTables(): get_table_names / get_tables return the list of names, the
\* third component of the result.
ListTables ==
    /\ last.op = "none"
    /\ \E impl \in Impls, envok \in BOOLEAN :
        RecordCall("ListTables", impl, "none", NoCall.pred, NoValues,
                   IF envok THEN "ok" ELSE "conn_fails", <<>>,
                   Outcome(CurrentStore,
                           Ret("list", 0,
                               Alphabetical(get_table_names(CurrentStore,
                                                            envok)))),
                   <<>>, FALSE)

\* The generic query executor on SELECT * FROM {table_name}: the rows, or
\* None; the connection is closed in a finally clause.
Query ==
    /\ last.op = "none"
    /\ \E impl \in Impls, t \in Tables, envok \in BOOLEAN :
        LET d == fetch_table_data(CurrentStore, t, envok)
        IN  RecordCall("Query", impl, t, NoCall.pred, NoValues,
                       IF envok THEN "ok" ELSE "conn_fails", <<>>,
                       Outcome(CurrentStore,
                               Ret(IF d.none THEN "None" ELSE "rows",
                                   Cardinality(d.rows), <<>>)),
                       <<>>, FALSE)

(***************************************************************************)
(* Restore: api_restore_backup (main.py) on restore_database_backup        *)
(* (data_manager.py) or restore_backup (database.py).                      *)
(***************************************************************************)
MaxOut == 2

\* The name of the uploaded file: stem, and the extension after the last
\* dot ("" when the name has no dot); the empty name has neither.
Stems == {"", "db"}
Extensions == {"", "backup", "BACKUP", "sql"}
FileNames == [stem : Stems, ext : Extensions]

\* str.lower() on the extensions of the model.
Lower(ext) == IF ext = "BACKUP" THEN "backup" ELSE ext

\* not backup_file.filename
IsEmptyName(filename) == filename.stem = "" /\ filename.ext = ""

\* Mutant of HasBackupExtension: any extension passes.
HasAnyExtension(filename) == TRUE

\* backup_file.filename.lower().endswith('.backup')
HasBackupExtension(filename) == Lower(filename.ext) = "backup"

\* The lines pg_restore can write to stdout and stderr:
\*   verbose          pg_restore: creating TABLE ...            (-v)
\*   timeout_error    pg_restore: error: could not execute query: ERROR:
\*                    unrecognized configuration parameter "transaction_timeout"
\*   timeout_plain    the same diagnostic without the "pg_restore: error" prefix
\*   other_error      pg_restore: error: <another error>
\*   fatal            another fatal error, without the "pg_restore: error" prefix
OutputLines ==
    {"verbose", "timeout_error", "timeout_plain", "other_error", "fatal"}

Outputs == UNION {[1..n -> OutputLines] : n \in 0..MaxOut}

\* The texts the code looks for in the output.
WarningText == "unrecognized configuration parameter \"transaction_timeout\""
ErrorPrefix == "pg_restore: error"
TimeoutWord == "transaction_timeout"

\* text in line
LineHas(line, text) ==
    IF text = WarningText THEN line \in {"timeout_error", "timeout_plain"}
    ELSE IF text = TimeoutWord THEN line \in {"timeout_error", "timeout_plain"}
    ELSE IF text = ErrorPrefix THEN line \in {"timeout_error", "other_error"}
    ELSE FALSE

\* text in process_output
Contains(output, text) == \E i \in 1..Len(output) : LineHas(output[i], text)

\* process_output.count(text)
Count(output, text) ==
    Cardinality({i \in 1..Len(output) : LineHas(output[i], text)})

\* What a restore returns: (status, message); the message of a failed
\* restore quotes stderr and stdout.
RestoreResult(status, quoted) == [status |-> status, quoted |-> quoted]

\* Mutant of restore_database_backup: the exit code alone decides.
restore_database_backup_by_exit_code(returncode, process_output) ==
    IF returncode = 0
    THEN RestoreResult(TRUE, <<>>)
    ELSE RestoreResult(FALSE, process_output)

\* restore_database_backup once pg_restore has run.  The table count read
\* under the warning only chooses between two success messages.
restore_database_backup(returncode, process_output) ==
    IF Contains(process_output, WarningText)
       /\ (~Contains(process_output, ErrorPrefix)
           \/ (Count(process_output, ErrorPrefix) = 1
               /\ Contains(process_output, TimeoutWord)))
    THEN RestoreResult(TRUE, <<>>)
    ELSE IF returncode = 0
    THEN RestoreResult(TRUE, <<>>)
    ELSE RestoreResult(FALSE, process_output)

\* restore_backup once pg_restore has run.
restore_backup(returncode, output) ==
    IF Contains(output, WarningText)
    THEN RestoreResult(TRUE, <<>>)
    ELSE IF returncode = 0
    THEN RestoreResult(TRUE, <<>>)
    ELSE RestoreResult(FALSE, output)

\* The response of api_restore_backup to the result of the restore: a failed
\* restore whose message holds the warning text is answered as a success.
RestoreResponse(result) ==
    IF result.status
    THEN "success"
    ELSE IF Contains(result.quoted, WarningText)
    THEN "success"
    ELSE "failure"

\* The dump that is uploaded: table p with one row.
Dump == Store({"p"}, [t \in Tables |-> IF t = "p" THEN {[id |-> 1, ref |-> 0]}
                                                  ELSE {}], {})

\* pg_restore --clean --if-exists: the tables of the dump replace the tables
\* of the same name.
Restored(db, dump) ==
    LET cleaned == DropTableQuery(db, "p")
    IN  Store(cleaned.exists \cup dump.exists,
              [t \in Tables |-> IF t \in dump.exists THEN dump.rows[t]
                                                     ELSE cleaned.rows[t]],
              cleaned.edges)

\* for table in tables: DROP TABLE IF EXISTS "{table}" CASCADE (restore_backup)
DropAllTables(db) == Store({}, [t \in Tables |-> {}], {})

IdleRequest ==
    [pc |-> "idle", impl |-> "none", filename |-> [stem |-> "", ext |-> ""],
     temp_file |-> FALSE, written |-> 0, attempted |-> FALSE,
     dropped |-> FALSE, invoked |-> 0, changed |-> FALSE,
     returncode |-> 0, output |-> <<>>,
     result |-> RestoreResult(FALSE, <<>>), response |-> "none",
     pre |-> Store({}, [t \in Tables |-> {}], {})]

SetReq(r) ==
    /\ req' = r
    /\ UNCHANGED <<exists, rows, edges, last, job, coltype, conns, run>>

\* api_restore_backup up to the call of the restore: the two checks of the
\* file name, then the upload is written to the temporary file.
RestoreRequest ==
    /\ req.pc = "idle"
    /\ \E impl \in Impls, filename \in FileNames, stored \in BOOLEAN :
        LET r == [IdleRequest EXCEPT !.impl = impl, !.filename = filename,
                                     !.pre = CurrentStore]
        IN  IF IsEmptyName(filename) \/ ~HasBackupExtension(filename)
            THEN SetReq([r EXCEPT !.pc = "done", !.response = "failure"])
            ELSE IF ~stored
            THEN SetReq([r EXCEPT !.pc = "done", !.response = "failure"])
            ELSE SetReq([r EXCEPT !.temp_file = TRUE, !.written = 1,
                                  !.pc = IF impl = "database" THEN "drop"
                                                              ELSE "run"])

\* restore_backup: every table is dropped before pg_restore runs; a failure
\* of this step is printed and ignored.  restore_database_backup has no such
\* step (attempted stays false).
RestoreDropTables ==
    /\ req.pc = "drop"
    /\ \E envok \in BOOLEAN :
        LET db == IF envok THEN DropAllTables(CurrentStore) ELSE CurrentStore
        IN  /\ exists' = db.exists
            /\ rows' = db.rows
            /\ edges' = db.edges
            /\ req' = [req EXCEPT !.attempted = TRUE, !.dropped = envok,
                                  !.pc = "run"]
            /\ UNCHANGED <<last, job, coltype, conns, run>>

\* subprocess.run(restore_command): the exit code and the output; the dump
\* is restored when the exit code is 0 and may be when it is not (changed
\* tells whether the utility changed the store).  When the utility cannot be
\* started the restore returns the exception.
RestoreRun ==
    /\ req.pc = "run"
    /\ \E started \in BOOLEAN, returncode \in {0, 1}, output \in Outputs,
          applied \in BOOLEAN :
        IF ~started
        THEN /\ req' = [req EXCEPT !.result = RestoreResult(FALSE, <<>>),
                                   !.pc = "respond"]
             /\ UNCHANGED <<exists, rows, edges, last, job, coltype, conns, run>>
        ELSE LET db == IF returncode = 0 \/ applied
                       THEN Restored(CurrentStore, Dump) ELSE CurrentStore
             IN  /\ exists' = db.exists
                 /\ rows' = db.rows
                 /\ edges' = db.edges
                 /\ req' = [req EXCEPT
                               !.invoked = @ + 1,
                               !.changed = db # CurrentStore,
                               !.returncode = returncode,
                               !.output = output,
                               !.result =
                                   IF req.impl = "data_manager"
                                   THEN restore_database_backup(returncode,
                                                                output)
                                   ELSE restore_backup(returncode, output),
                               !.pc = "respond"]
                 /\ UNCHANGED <<last, job, coltype, conns, run>>

\* api_restore_backup after the restore: the temporary file is removed and
\* the response is built.
RestoreRespond ==
    /\ req.pc = "respond"
    /\ SetReq([req EXCEPT !.temp_file = FALSE,
                          !.response = RestoreResponse(req.result),
                          !.pc = "done"])

(***************************************************************************)
(* Initial stores: any tables, rows with a unique id, at most one foreign  *)
(* key per table (on its column ref), every reference valid.               *)
(***************************************************************************)
TableContents ==
    {S \in SUBSET Row : \A r1, r2 \in S : r1.id = r2.id => r1 = r2}

InitStore ==
    /\ exists \in SUBSET Tables
    /\ rows \in [Tables -> TableContents]
    /\ \A t \in Tables \ exists : rows[t] = {}
    /\ edges \in SUBSET [child : exists, parent : exists]
    /\ \A e1, e2 \in edges : e1.child = e2.child => e1 = e2
    /\ Cardinality(rows["p"]) + Cardinality(rows["c"]) <= MaxRows
    /\ FKValid(CurrentStore)

InitDelete ==
    /\ InitStore
    /\ last = NoCall
    /\ job = [j \in JobIds |-> IdleJob]
    /\ coltype = "integer"
    /\ conns = 0
    /\ req = IdleRequest
    /\ run = IdleRun

NextDelete == DeleteCascade \/ DeleteSafe

SpecDelete == InitDelete /\ [][NextDelete]_vars

\* Stores for the archive: each table absent, empty or holding one row;
\* c may reference p.
SeedRows == {{}, {[id |-> 1, ref |-> 0]}}

InitArchive ==
    /\ exists \in SUBSET Tables
    /\ rows \in [Tables -> SeedRows]
    /\ \A t \in Tables \ exists : rows[t] = {}
    /\ edges \in SUBSET {[child |-> "c", parent |-> "p"]}
    /\ \A e \in edges : e.child \in exists /\ e.parent \in exists
    /\ last = NoCall
    /\ job = [j \in JobIds |-> IdleJob]
    /\ coltype = "integer"
    /\ conns = 0
    /\ req = IdleRequest
    /\ run = IdleRun

\* One archive call at a time (job 1).
ArchiveStep(j) ==
    \/ ArchStart(j)
    \/ ArchFilter(j)
    \/ ArchExists(j)
    \/ ArchBackup(j)
    \/ ArchFetch(j)
    \/ ArchExcel(j)
    \/ ArchJson(j)
    \/ ArchDrop(j)
    \/ ArchManifest(j)
    \/ ArchReturn(j)

NextArchive == ArchiveStep(1)

SpecArchive == InitArchive /\ [][NextArchive]_vars

\* Two archive calls at a time, each with a list of one table: a step of
\* either job, in any interleaving.
ConcurrentStep(j) ==
    \/ ArchStart(j) /\ Len(job'[j].list) = 1
    \/ ArchFilter(j)
    \/ ArchExists(j)
    \/ ArchBackup(j)
    \/ ArchFetch(j)
    \/ ArchExcel(j)
    \/ ArchJson(j)
    \/ ArchDrop(j)
    \/ ArchManifest(j)
    \/ ArchReturn(j)

NextConcurrent == \E j \in JobIds : ConcurrentStep(j)

SpecConcurrent == InitArchive /\ [][NextConcurrent]_vars

\* The calls of the data layer, one call from an initial store of either
\* column type that holds at most half of MaxRows rows, rounded up
\* (DropTable may be repeated).
InitCalls ==
    /\ InitStore
    /\ 2 * (Cardinality(rows["p"]) + Cardinality(rows["c"])) <= MaxRows + 1
    /\ last = NoCall
    /\ job = [j \in JobIds |-> IdleJob]
    /\ coltype \in ColTypes
    /\ conns = 0
    /\ req = IdleRequest
    /\ run = IdleRun

NextCalls ==
    \/ Update
    \/ DeleteCascade
    \/ DeleteSafe
    \/ DropTable
    \/ ListTables
    \/ Query

SpecCalls == InitCalls /\ [][NextCalls]_vars

\* The insert and the delete request, one call from a store of InitCalls.
NextRequests ==
    \/ Insert
    \/ ApiDeleteData

SpecRequests == InitCalls /\ [][NextRequests]_vars

\* One cascading delete or one update, statement by statement; the
\* interpreter goes on with the call as long as it has a next statement.
NextTraversal ==
    \/ CascadeStart
    \/ CascadeEdge
    \/ CascadeMain
    \/ UpdateStart
    \/ UpdateRow
    \/ UpdateEdge
    \/ UpdateOwn
    \/ UpdateEnd

\* Stores for the traversals: every graph of foreign keys over the two
\* tables (self-references and the cycle of p and c included), each table
\* empty, holding one row, or holding two rows that reference the same id.
TraversalRows ==
    {{}, {[id |-> 1, ref |-> 0]}, {[id |-> 1, ref |-> 1]},
     {[id |-> 1, ref |-> 1], [id |-> 2, ref |-> 1]}}

InitTraversal ==
    /\ exists = Tables
    /\ rows \in [Tables -> TraversalRows]
    /\ edges \in SUBSET Edge
    /\ \A e1, e2 \in edges : e1.child = e2.child => e1 = e2
    /\ FKValid(CurrentStore)
    /\ last = NoCall
    /\ job = [j \in JobIds |-> IdleJob]
    /\ coltype \in ColTypes
    /\ conns = 0
    /\ req = IdleRequest
    /\ run = IdleRun

SpecTraversal ==
    InitTraversal /\ [][NextTraversal]_vars /\ WF_vars(NextTraversal)

\* One restore request on a store of the archive's kind.
InitRestore == InitArchive

NextRestore ==
    \/ RestoreRequest
    \/ RestoreDropTables
    \/ RestoreRun
    \/ RestoreRespond

SpecRestore == InitRestore /\ [][NextRestore]_vars

TypeOK ==
    /\ exists \subseteq Tables
    /\ \A t \in Tables :
          /\ rows[t] \subseteq [id : Ids \cup {Zero}, ref : 0..MaxId]
          /\ \A r1, r2 \in rows[t] : r1.id = r2.id => r1 = r2
    /\ edges \subseteq Edge
    /\ FKValid(CurrentStore)
    /\ coltype \in ColTypes
    /\ conns \in Nat

(***************************************************************************)
(* Properties of the deletes.                                              *)
(***************************************************************************)
\* The rows of the target table that the predicate selected before the call.
Matched == {r \in last.pre.rows[last.table] : Matches(r, last.pred)}

\* The rows of the target table that the call removed.
Removed == last.pre.rows[last.table] \ rows[last.table]

\* The referencing edges of the target table with at least one row that
\* references a selected row.
BlockingEdges ==
    {e \in RefEdges(last.pre, last.table) :
        DependencyCount(last.pre, e, last.table, last.pred) > 0}

\* The safe delete reached the store, discovered the referencing edges and
\* one of them holds a dependent row.
SafeDeleteBlocked ==
    /\ last.op = "DeleteSafe"
    /\ last.env = "ok"
    /\ BlockingEdges # {}

\* C1: a safe delete that meets a dependent row writes nothing: the rows of
\* the target table and of every referencing table (the whole store) are as
\* they were before the call.
C1_BlockedSafeDeleteWritesNothing ==
    SafeDeleteBlocked => CurrentStore = last.pre

C1_Witness ==
    /\ SafeDeleteBlocked
    /\ \E e \in BlockingEdges : e.child # last.table

\* C2 (the claim as stated): a blocked safe delete returns dependencies_exist
\* with exactly one {table, count} entry per referencing edge that holds a
\* dependent row, carrying the number of such rows.
C2_BlockedSafeDeleteListsDependencies ==
    SafeDeleteBlocked =>
        /\ last.ret.kind = "dependencies_exist"
        /\ Len(last.ret.deps) = Cardinality(BlockingEdges)
        /\ \A e \in BlockingEdges :
               \E i \in 1..Len(last.ret.deps) :
                   last.ret.deps[i] =
                       [table |-> e.child,
                        count |-> DependencyCount(last.pre, e, last.table,
                                                  last.pred)]

CascadeSucceeded ==
    /\ last.op = "DeleteCascade"
    /\ last.ret.kind = "True"

\* No row of a table that references the target still references a removed row.
NoDanglingReference ==
    \A e \in RefEdges(last.pre, last.table) :
        \A r \in rows[e.child] : r.ref \notin {d.id : d \in Removed}

\* C3 (the claim as stated): after a successful cascading delete no
\* referencing row points at a deleted row, and the rows removed from the
\* table are exactly the rows that matched the predicate.
C3_CascadeRemovesExactlyMatched ==
    CascadeSucceeded => NoDanglingReference /\ Removed = Matched

\* C3 (amended): after a successful cascading delete no referencing row
\* points at a deleted row, every matched row is removed, and every other
\* removed row of the table referenced a matched row through the table's
\* foreign key on itself.
C3_CascadeRemovesMatchedAndSelfChildren ==
    CascadeSucceeded =>
        /\ NoDanglingReference
        /\ Matched \subseteq Removed
        /\ \A r \in Removed \ Matched :
               /\ [child |-> last.table, parent |-> last.table] \in last.pre.edges
               /\ r.ref \in {m.id : m \in Matched}

C3_Witness ==
    /\ CascadeSucceeded
    /\ \E e \in BlockingEdges : e.child # last.table
    /\ Removed # {}

\* The other delete run on the same store with the same arguments.
OtherDelete ==
    IF last.op = "DeleteCascade"
    THEN IF last.impl = "data_manager"
         THEN safe_remove_table_data(last.pre, last.table, last.pred,
                                     last.env, last.order)
         ELSE delete_data_safe(last.pre, last.table, last.pred,
                               last.env, last.order)
    ELSE IF last.impl = "data_manager"
         THEN remove_table_data(last.pre, last.table, last.pred,
                                last.env, last.order)
         ELSE delete_data(last.pre, last.table, last.pred,
                          last.env, last.order)

Unreferenced ==
    /\ last.op \in {"DeleteCascade", "DeleteSafe"}
    /\ RefEdges(last.pre, last.table) = {}

\* C4: on a table that no foreign key references, the cascading and the safe
\* delete leave the same store, and the cascading delete returns true
\* exactly when the safe delete returns ok with at least one affected row.
C4_UnreferencedDeletesAgree ==
    Unreferenced =>
        LET other == OtherDelete
            cascade == IF last.op = "DeleteCascade" THEN last.ret ELSE other.ret
            safe == IF last.op = "DeleteSafe" THEN last.ret ELSE other.ret
        IN  /\ other.db = CurrentStore
            /\ (cascade.kind = "True") <=> (safe.kind = "ok" /\ safe.affected >= 1)

C4_Witness ==
    /\ Unreferenced
    /\ last.op = "DeleteCascade"
    /\ last.ret.kind = "True"
    /\ last.table \in {e.child : e \in last.pre.edges}

(***************************************************************************)
(* Properties of the archive job.                                          *)
(***************************************************************************)
\* The job under examination.
J == job[1]

Returned == J.pc = "done"

Positions == 1..Len(J.list)

\* The job logged the event: step of the entry at position q ended with out.
Event(q, step, out) ==
    \E n \in 1..Len(J.log) : J.log[n] = [pos |-> q, step |-> step, out |-> out]

\* The per-table steps; reading the rows belongs to the Excel export.
TableSteps == {"exists", "backup", "fetch", "excel", "json", "drop"}

\* The pipeline of the entry at q went through backup, exports and drop
\* with no step failing.
PassedAllSteps(q) ==
    /\ Event(q, "backup", "ok")
    /\ Event(q, "drop", "ok")
    /\ \A step \in TableSteps : ~Event(q, step, "fail")

Marked(results, q, status) ==
    \E r \in 1..Len(results) : results[r].pos = q /\ results[r].status = status

\* C5 (the claim as stated): a step that fails for a table leaves a failure
\* note for that table, no later step of that table's pipeline runs, and
\* every later table of the list is still attempted.
C5_FailedStepStopsOnlyItsTable ==
    \A n \in 1..Len(J.log) :
        (J.log[n].out = "fail" /\ J.log[n].step \in TableSteps) =>
            /\ (n < Len(J.log) \/ Returned) =>
                   Marked(J.results, J.log[n].pos, "failure")
            /\ \A m \in (n + 1)..Len(J.log) : J.log[m].pos # J.log[n].pos
            /\ Returned =>
                   \A q \in Positions :
                       q > J.log[n].pos =>
                           \E m \in 1..Len(J.log) : J.log[m].pos = q

ArchivedTables ==
    {J.results[r].table : r \in {x \in 1..Len(J.results) :
                                     J.results[x].status = "success"}}

ListedTables == {J.list[q] : q \in Positions}

\* C7 (the claim as stated): success only when every listed table has a
\* success record, partial when some but not all have one, failure when
\* none has one.
C7_OverallStatus ==
    Returned =>
        /\ J.ret.status = "success" => ListedTables \subseteq ArchivedTables
        /\ (ArchivedTables # {} /\ ~(ListedTables \subseteq ArchivedTables)) =>
               J.ret.status = "partial"
        /\ ArchivedTables = {} => J.ret.status = "failure"

\* C8 (the claim as stated): a success record stands only for a table whose
\* backup file, Excel file and JSON file were written in this job and whose
\* drop succeeded; the files it names exist.
C8_SuccessRecordHasItsFiles ==
    \A r \in 1..Len(J.results) :
        J.results[r].status = "success" =>
            /\ J.results[r].backup_file \in J.files
            /\ J.results[r].excel_file \in J.files
            /\ J.results[r].json_file \in J.files
            /\ Event(J.results[r].pos, "drop", "ok")

\* Once written, the manifest is the last thing the job did: every pipeline
\* has ended and the manifest holds the final per-table results.
ManifestIsFinal ==
    J.manifest.writes >= 1 =>
        /\ J.manifest.writes = 1
        /\ J.log[Len(J.log)].step = "manifest"
        /\ J.i > Len(J.loop)
        /\ J.manifest.results = J.results

C10_OneResultPerListedTable ==
    Returned =>
        /\ Len(J.results) = Len(J.list)
        /\ \A q \in Positions :
               J.results[q].pos = q /\ J.results[q].table = J.list[q]

(***************************************************************************)
(* Properties of Update.                                                   *)
(***************************************************************************)
\* The position of the first statement of the given kind in the statements
\* the call sent, 0 when there is none.
FirstStmt(kind, t) ==
    LET at == {i \in 1..Len(last.stmts) :
                  last.stmts[i].kind = kind /\ last.stmts[i].table = t}
    IN  IF at = {} THEN 0 ELSE CHOOSE i \in at : \A j \in at : i <= j

\* An Update call with plain new values that reached the store and found
\* rows to update.
UpdateOfRows ==
    /\ last.op = "Update"
    /\ last.env = "ok"
    /\ last.table \in last.pre.exists
    /\ \E k \in Columns : Truthy(last.data[k])
    /\ \A k \in Columns : last.data[k] # Zero
    /\ Matched # {}

\* C11: in an Update call, for a matched row and each foreign key of the
\* table whose child column gets a non-empty new value that differs from
\* the row's old value, the statement on the parent table is sent before
\* the row's own UPDATE; no statement goes to the parent of a foreign key
\* whose child column is absent from the new values or unchanged.
C11_ParentUpdatedBeforeOwnUpdate ==
    UpdateOfRows =>
        \A e \in ForeignKeys(last.pre, last.table) :
            IF \E r \in Matched : last.data.ref # 0 /\ last.data.ref # r.ref
            THEN /\ FirstStmt("update_related", e.parent) > 0
                 /\ FirstStmt("update_own", last.table) > 0
                 /\ FirstStmt("update_related", e.parent)
                        < FirstStmt("update_own", last.table)
            ELSE FirstStmt("update_related", e.parent) = 0

\* The row that newValues turns row r into.
NewRow(r) == [k \in Columns |-> IF last.data[k] # 0 THEN last.data[k] ELSE r[k]]

\* A statement of the call failed with a constraint violation.
ConstraintFailure ==
    /\ last.op = "Update"
    /\ \E i \in 1..Len(last.stmts) : last.stmts[i].out = "constraint"

\* C12: in an Update call on a table without foreign keys, the own UPDATE of
\* every matched row changes that row and no other row of the table: the
\* table afterwards holds the unmatched rows as they were and the matched
\* rows with the new values, unless a constraint violation failed the call.
C12_OwnUpdateChangesExactlyMatchedRows ==
    (UpdateOfRows /\ ForeignKeys(last.pre, last.table) = {}) =>
        \/ rows[last.table] =
               (last.pre.rows[last.table] \ Matched)
                   \cup {NewRow(r) : r \in Matched}
        \/ ConstraintFailure /\ last.ret.kind = "None"

UpdateOfNoRows ==
    /\ last.op = "Update"
    /\ last.env # "conn_fails"
    /\ last.table \in last.pre.exists
    /\ Matched = {}

\* C21: an Update call whose predicate matches no row of the table returns
\* false, the not-found result, sends no statement that writes to the table
\* or to a parent table, and leaves the store as it was.
C21_UpdateOfNoRowsReturnsFalse ==
    UpdateOfNoRows =>
        /\ last.ret.kind = "False"
        /\ last.stmts = <<>>
        /\ CurrentStore = last.pre

C21_Witness ==
    /\ UpdateOfNoRows
    /\ last.ret.kind = "False"
    /\ last.pre.rows[last.table] # {}
    /\ \E k \in Columns : Truthy(last.data[k])

\* C23: after a successful Update every updated row holds the new value in
\* each column that newValues names with a non-empty value, the number 0
\* and False included, and its old value in every other column: the table
\* is the table before the call with some rows replaced by their merge
\* with newValues.
C23_UpdatedRowsHoldNewValues ==
    (last.op = "Update" /\ last.ret.kind = "True") =>
        \E U \in SUBSET last.pre.rows[last.table] :
            /\ U # {}
            /\ rows[last.table] =
                   (last.pre.rows[last.table] \ U) \cup {NewRow(r) : r \in U}

(***************************************************************************)
(* Properties of the calls: rollback, connections, DropTable, ListTables.  *)
(***************************************************************************)
\* The referencing foreign keys that the cascading delete listed.
ListedReferences ==
    IF last.impl = "data_manager"
    THEN get_referenced_tables(last.env, last.order)
    ELSE get_referencing_tables(last.env, last.order)

\* A cascading delete that failed after its first statements had deleted
\* rows of referencing tables.
CascadeFailedAfterDeletes ==
    /\ last.op = "DeleteCascade"
    /\ last.env # "conn_fails"
    /\ last.ret.kind = "None"
    /\ ~ListedReferences.none
    /\ \E k \in 1..Len(ListedReferences.list) :
          LET st == DeleteReferencing(last.pre,
                                      SubSeq(ListedReferences.list, 1, k),
                                      last.table, last.pred)
          IN  st.ok /\ st.db # last.pre

\* C14: a DeleteCascade call that fails after it has deleted rows of
\* referencing tables commits none of these deletions: the store is as it
\* was before the call.
C14_FailedCascadeLeavesStore ==
    CascadeFailedAfterDeletes => CurrentStore = last.pre

C14_Witness ==
    /\ CascadeFailedAfterDeletes
    /\ CurrentStore = last.pre
    /\ last.pre.rows["c"] # {}

\* C15: after any call of Update, DeleteCascade, DeleteSafe, DropTable or
\* the query executor no connection that the call opened is still open.
C15_NoConnectionLeftOpen == conns = 0

\* C16: DropTable on a name that is no table of a reachable store returns
\* true and leaves the store as it is, and of two DropTable calls in a row
\* on the same name both return true and the second changes nothing.
C16_DropTableIdempotent ==
    (last.op = "DropTable" /\ last.env = "ok") =>
        /\ last.table \notin last.pre.exists =>
               last.ret.kind = "True" /\ CurrentStore = last.pre
        /\ (last.prev.op = "DropTable" /\ last.prev.env = "ok"
            /\ last.prev.table = last.table) =>
               /\ last.prev.kind = "True"
               /\ last.ret.kind = "True"
               /\ CurrentStore = last.pre

\* The second of two DropTable calls in a row on the same name has returned.
C16_Witness ==
    /\ last.op = "DropTable"
    /\ last.env = "ok"
    /\ last.prev.op = "DropTable"
    /\ last.prev.env = "ok"
    /\ last.prev.table = last.table
    /\ last.table \notin last.pre.exists
    /\ last.pre.exists # {}

\* C20: ListTables on an unreachable store ends in a ConnectionError instead
\* of returning a sequence of tables.
C20_ListTablesReportsUnreachableStore ==
    (last.op = "ListTables" /\ last.env # "ok") =>
        last.ret.kind = "ConnectionError"

(***************************************************************************)
(* Properties of the restore.                                              *)
(***************************************************************************)
\* pg_restore ran and ended with a nonzero exit code.
UtilityFailed == req.invoked > 0 /\ req.returncode # 0

\* The lines of the output that are diagnostics.
Diagnostics(output) == {i \in 1..Len(output) : output[i] # "verbose"}

\* The only diagnostic of the output is the transaction_timeout warning.
OnlyTimeoutWarning(output) ==
    /\ Cardinality(Diagnostics(output)) = 1
    /\ \A i \in Diagnostics(output) :
          output[i] \in {"timeout_error", "timeout_plain"}

\* The output holds the warning and another fatal error.
WarningAndFatalError(output) ==
    /\ \E i \in 1..Len(output) : output[i] \in {"timeout_error", "timeout_plain"}
    /\ \E i \in 1..Len(output) : output[i] \in {"other_error", "fatal"}

\* C17: the restore returns success when pg_restore exits with a nonzero
\* code and the only diagnostic of its output is the "unrecognized
\* configuration parameter" warning.
C17_TimeoutWarningIsSuccess ==
    (UtilityFailed /\ OnlyTimeoutWarning(req.output)) => req.result.status

C17_Witness ==
    /\ UtilityFailed
    /\ OnlyTimeoutWarning(req.output)
    /\ req.impl = "data_manager"
    /\ req.result.status
    /\ req.response = "success"

\* C18: when pg_restore exits with a nonzero code and its output holds the
\* warning and another fatal error, the restore returns failure and the
\* request handler answers with a failure.
C18_FatalErrorBesideWarningIsFailure ==
    (UtilityFailed /\ WarningAndFatalError(req.output)) =>
        /\ ~req.result.status
        /\ req.pc = "done" => req.response = "failure"

\* C19: a restore request whose file name does not end with .backup is
\* rejected: no file is written, no table is dropped, pg_restore is not
\* run and the store stays as it was.
C19_WrongExtensionRejectedFirst ==
    (req.pc # "idle" /\ Lower(req.filename.ext) # "backup") =>
        /\ req.pc = "done"
        /\ req.response = "failure"
        /\ req.written = 0
        /\ ~req.dropped
        /\ req.invoked = 0
        /\ CurrentStore = req.pre

C19_Witness ==
    /\ req.pc = "done"
    /\ req.filename = [stem |-> "db", ext |-> "sql"]
    /\ req.response = "failure"
    /\ req.written = 0
    /\ req.pre.exists # {}


(***************************************************************************)
(* Properties of the insert and of the delete request.                     *)
(***************************************************************************)
\* The rows that the call added to its table.
Added == rows[last.table] \ last.pre.rows[last.table]

\* C22: after an Insert that returns an identifier the table holds one more
\* row, whose id is the identifier and whose inserted columns hold the
\* inserted values; an Insert that returns no identifier, or that the
\* handler answers as failed, leaves the store as it was.
C22_InsertedRowIsStored ==
    last.op = "Insert" =>
        /\ last.ret.kind = "id" =>
              /\ Cardinality(Added) = 1
              /\ last.pre.rows[last.table] \subseteq rows[last.table]
              /\ \A r \in Added :
                    /\ r.id = last.ret.affected
                    /\ \A k \in Columns :
                          last.data[k] # 0 => r[k] = last.data[k]
        /\ last.ret.kind # "id" =>
              /\ last.ret.kind = "None"
              /\ CurrentStore = last.pre
        /\ last.request.response = "failure" => CurrentStore = last.pre

\* C25: a delete request whose filter is empty or only blanks is answered
\* with a validation error and calls neither delete: no statement reaches
\* the store, in cascade mode and in safe mode.
C25_BlankFilterRejectedFirst ==
    (last.op = "ApiDelete" /\ last.request.filter \in {"", " ", "  "}) =>
        /\ last.request.response = "validation_error"
        /\ last.stmts = <<>>
        /\ CurrentStore = last.pre
        /\ conns = 0

C25_Witness ==
    /\ last.op = "ApiDelete"
    /\ last.request.filter = "  "
    /\ last.request.cascade_mode
    /\ last.request.response = "validation_error"
    /\ last.pre.rows[last.table] # {}


\* The edges of the call's table that its loop has to go through: the
\* referencing edges in a delete, the table's own edges for each matched
\* row in an update.
DirectEdges ==
    IF run.op = "DeleteCascade"
    THEN {[edge |-> e, row |-> 0] : e \in RefEdges(run.pre, run.table)}
    ELSE {[edge |-> e, row |-> r.id] :
             e \in ForeignKeys(run.pre, run.table),
             r \in {x \in run.pre.rows[run.table] : Matches(x, run.pred)}}

\* The loop went through direct edges of the table only, through none of
\* them twice, and through every edge that the discovery returned when the
\* call ran to its commit.
DirectEdgesOnce ==
    /\ \A i \in 1..Len(run.log) : run.log[i] \in DirectEdges
    /\ \A i, j \in 1..Len(run.log) : run.log[i] = run.log[j] => i = j
    /\ (run.pc = "done" /\ run.ret.kind \in {"True", "False"}) =>
           [i \in 1..Len(run.log) |-> run.log[i].edge] = run.fetched

C27_DropOnlyAfterRowsArchived ==
    \A q \in Positions :
        /\ Event(q, "drop", "ok") =>
               /\ Event(q, "fetch", "ok")
               /\ Event(q, "json", "ok")
        /\ Event(q, "fetch", "fail") =>
               /\ ~Event(q, "drop", "ok")
               /\ Returned => Marked(J.results, q, "failure")
        /\ \A r \in 1..Len(J.results) :
               (/\ J.results[r].pos = q
                /\ J.results[r].status = "success"
                /\ \A q2 \in 1..(q - 1) : J.list[q2] # J.list[q]) =>
                   J.results[r].rows_archived =
                       Cardinality(J.pre.rows[J.list[q]])

\* Job j appended a success record for table t.
Archived(j, t) ==
    \E r \in 1..Len(job[j].results) :
        /\ job[j].results[r].table = t
        /\ job[j].results[r].status = "success"

\* C29: when two archive calls that list the same table run interleaved, at
\* most one of the two jobs appends a success record for that table.
C29_OneSuccessRecordPerTable ==
    \A t \in Tables : ~(Archived(1, t) /\ Archived(2, t))

\* C28: when the discovery of the referencing edges fails inside the safe
\* delete, the call deletes no row and returns a failure result.
C28_FailedDiscoveryFailsSafeDelete ==
    (last.op = "DeleteSafe" /\ last.env = "discovery_fails") =>
        /\ CurrentStore = last.pre
        /\ last.ret.kind \in {"error", "None"}

\* C24: the restore attempts to drop every existing table before it invokes
\* the utility, and a failure of the drop neither fails the restore nor
\* keeps the utility from running.
C24_TablesDroppedBeforeUtility ==
    /\ req.invoked > 0 => req.attempted
    /\ (req.pc = "done" /\ req.attempted /\ ~req.dropped /\ req.invoked > 0
           /\ req.returncode = 0 /\ Diagnostics(req.output) = {})
          => req.response = "success"

\* C30: when the restore returns failure and the utility changed nothing,
\* the tables and their rows are the same after the call as before it.
C30_FailedRestoreLeavesStore ==
    (req.pc = "done" /\ req.temp_file = FALSE /\ req.written > 0
        /\ ~req.result.status /\ req.response = "failure" /\ ~req.changed)
        => CurrentStore = req.pre

=============================================================================
